---- MODULE Spec2Model ----
(***************************************************************************)
(* A model of django_query_parser (src/src/django_query_parser/parser.py): *)
(* the QUERY_GRAMMAR terminals and rules as Lark's LALR parser with its    *)
(* contextual lexer reads them, QueryTranslator (the Transformer callbacks *)
(* or_expr, and_expr, lookup_statement, _clean_value) and                  *)
(* DjangoQueryParser.parse.  Text is a sequence of one-character strings.  *)
(***************************************************************************)
EXTENDS Integers, Sequences, FiniteSets, TLC

(***************************************************************************)
(* Characters                                                              *)
(***************************************************************************)
DQ == "\""
BS == "\\"
NL == "\n"
TAB == "\t"

Lowers == {"a","b","c","d","e","f","g","h","i","j","k","l","m",
           "n","o","p","q","r","s","t","u","v","w","x","y","z"}
Uppers == {"A","B","C","D","E","F","G","H","I","J","K","L","M",
           "N","O","P","Q","R","S","T","U","V","W","X","Y","Z"}
Digits == {"0","1","2","3","4","5","6","7","8","9"}

\* /\w/ of FIELD and UNQUOTED_VALUE
IsWordChar(c) == c \in Lowers \cup Uppers \cup Digits \cup {"_"}

\* common.WS: /[ \t\f\r\n]/+
IsWS(c) == c \in {" ", TAB, NL, "\r", "\f"}

\* what str.strip() and int()/float() strip around a literal
IsPySpace(c) == c \in {" ", TAB, NL, "\r", "\f"}

LowerChar(c) ==
    CASE c = "A" -> "a" [] c = "B" -> "b" [] c = "C" -> "c" [] c = "D" -> "d"
      [] c = "E" -> "e" [] c = "F" -> "f" [] c = "G" -> "g" [] c = "H" -> "h"
      [] c = "I" -> "i" [] c = "J" -> "j" [] c = "K" -> "k" [] c = "L" -> "l"
      [] c = "M" -> "m" [] c = "N" -> "n" [] c = "O" -> "o" [] c = "P" -> "p"
      [] c = "Q" -> "q" [] c = "R" -> "r" [] c = "S" -> "s" [] c = "T" -> "t"
      [] c = "U" -> "u" [] c = "V" -> "v" [] c = "W" -> "w" [] c = "X" -> "x"
      [] c = "Y" -> "y" [] c = "Z" -> "z" [] OTHER -> c

\* str.lower()
Lower(s) == [i \in 1..Len(s) |-> LowerChar(s[i])]

DigitVal(c) ==
    CASE c = "0" -> 0 [] c = "1" -> 1 [] c = "2" -> 2 [] c = "3" -> 3
      [] c = "4" -> 4 [] c = "5" -> 5 [] c = "6" -> 6 [] c = "7" -> 7
      [] c = "8" -> 8 [] c = "9" -> 9 [] OTHER -> 0

\* a local variable: Body with v for the value assigned to it
Bind(v, Body(_)) == Body(v)

Slice(s, a, b) == SubSeq(s, a, b)

\* str.startswith / str.endswith with a one-character argument
StartsWith(s, c) == Len(s) >= 1 /\ s[1] = c
EndsWith(s, c) == Len(s) >= 1 /\ s[Len(s)] = c

RECURSIVE LStrip(_, _)
LStrip(s, c) == IF Len(s) >= 1 /\ s[1] = c THEN LStrip(Tail(s), c) ELSE s

RECURSIVE RStrip(_, _)
RStrip(s, c) ==
    IF Len(s) >= 1 /\ s[Len(s)] = c THEN RStrip(SubSeq(s, 1, Len(s) - 1), c) ELSE s

\* str.strip(chars) with a one-character argument: every leading and every
\* trailing occurrence is removed
Strip(s, c) == RStrip(LStrip(s, c), c)

\* str.replace(old, new) for a two-character old and a one-character new
RECURSIVE Replace2(_, _, _, _)
Replace2(s, o1, o2, new) ==
    IF Len(s) = 0 THEN <<>>
    ELSE IF Len(s) >= 2 /\ s[1] = o1 /\ s[2] = o2
         THEN <<new>> \o Replace2(SubSeq(s, 3, Len(s)), o1, o2, new)
         ELSE <<s[1]>> \o Replace2(Tail(s), o1, o2, new)

(***************************************************************************)
(* Values: what _clean_value returns.  A Python str, int, float, bool or   *)
(* None.  A float is num * 10^exp with num not a multiple of ten, or one   *)
(* of inf, -inf, nan (text names it).                                      *)
(***************************************************************************)
StringV(s) == [type |-> "String", text |-> s, num |-> 0, exp |-> 0]
IntegerV(n) == [type |-> "Integer", text |-> <<>>, num |-> n, exp |-> 0]
BooleanV(b) == [type |-> "Boolean", text |-> <<>>, num |-> IF b THEN 1 ELSE 0, exp |-> 0]
NullV == [type |-> "Null", text |-> <<>>, num |-> 0, exp |-> 0]
FloatV(m, e) == [type |-> "Float", text |-> <<>>, num |-> m, exp |-> e]
FloatSpecial(name, sign) == [type |-> "Float", text |-> name, num |-> sign, exp |-> 0]

RECURSIVE NormFloat(_, _)
NormFloat(m, e) ==
    IF m = 0 THEN FloatV(0, 0)
    ELSE IF m % 10 = 0 THEN NormFloat(m \div 10, e + 1)
    ELSE FloatV(m, e)

(***************************************************************************)
(* Python's int(str) and float(str), base 10, as _clean_value calls them.  *)
(* Both strip surrounding whitespace, take one optional sign and allow a   *)
(* single underscore between two digits.                                   *)
(***************************************************************************)
RECURSIVE LStripSpace(_)
LStripSpace(s) == IF Len(s) >= 1 /\ IsPySpace(s[1]) THEN LStripSpace(Tail(s)) ELSE s

RECURSIVE RStripSpace(_)
RStripSpace(s) ==
    IF Len(s) >= 1 /\ IsPySpace(s[Len(s)])
    THEN RStripSpace(SubSeq(s, 1, Len(s) - 1)) ELSE s

StripSpace(s) == RStripSpace(LStripSpace(s))

HasSign(s) == Len(s) >= 1 /\ s[1] \in {"+", "-"}
SignOf(s) == IF Len(s) >= 1 /\ s[1] = "-" THEN -1 ELSE 1
Unsigned(s) == IF HasSign(s) THEN Tail(s) ELSE s

\* digit (["_"] digit)*
IsDigitPart(s) ==
    /\ Len(s) >= 1
    /\ s[1] \in Digits
    /\ s[Len(s)] \in Digits
    /\ \A i \in 1..Len(s) : s[i] \in Digits \cup {"_"}
    /\ \A i \in 1..(Len(s) - 1) : ~(s[i] = "_" /\ s[i + 1] = "_")

RECURSIVE DigitsValue(_, _)
DigitsValue(s, acc) ==
    IF Len(s) = 0 THEN acc
    ELSE IF s[1] = "_" THEN DigitsValue(Tail(s), acc)
    ELSE DigitsValue(Tail(s), acc * 10 + DigitVal(s[1]))

RECURSIVE CountDigits(_)
CountDigits(s) ==
    IF Len(s) = 0 THEN 0
    ELSE (IF s[1] \in Digits THEN 1 ELSE 0) + CountDigits(Tail(s))

\* int(raw_value): ok is FALSE where Python raises ValueError
PyInt(raw) ==
    Bind(StripSpace(raw), LAMBDA t :
        IF IsDigitPart(Unsigned(t))
        THEN [ok |-> TRUE, val |-> IntegerV(SignOf(t) * DigitsValue(Unsigned(t), 0))]
        ELSE [ok |-> FALSE, val |-> NullV])

\* index of the first occurrence of a character of cs in s, 0 when there is none
RECURSIVE IndexOf(_, _, _)
IndexOf(s, cs, i) ==
    IF i > Len(s) THEN 0 ELSE IF s[i] \in cs THEN i ELSE IndexOf(s, cs, i + 1)

\* the digits ip "." fp of a float text and its exponent text expo
PyFloatParts(sign, ip, fp, expo, hasExp) ==
    IF /\ (ip = <<>> \/ IsDigitPart(ip))
       /\ (fp = <<>> \/ IsDigitPart(fp))
       /\ ~(ip = <<>> /\ fp = <<>>)
       /\ (~hasExp \/ IsDigitPart(Unsigned(expo)))
    THEN [ok |-> TRUE,
          val |-> NormFloat(sign * DigitsValue(ip \o fp, 0),
                            (IF hasExp THEN SignOf(expo) * DigitsValue(Unsigned(expo), 0) ELSE 0)
                                - CountDigits(fp))]
    ELSE [ok |-> FALSE, val |-> NullV]

\* the mantissa mant, with its "." at dot (0: none)
PyFloatMantissa(sign, mant, dot, expo, hasExp) ==
    PyFloatParts(sign,
                 IF dot = 0 THEN mant ELSE SubSeq(mant, 1, dot - 1),
                 IF dot = 0 THEN <<>> ELSE SubSeq(mant, dot + 1, Len(mant)),
                 expo, hasExp)

\* the text after the sign, with its "e" or "E" at ePos (0: none)
PyFloatNumber(sign, body, ePos) ==
    LET mant == IF ePos = 0 THEN body ELSE SubSeq(body, 1, ePos - 1)
    IN PyFloatMantissa(sign, mant, IndexOf(mant, {"."}, 1),
                       IF ePos = 0 THEN <<>> ELSE SubSeq(body, ePos + 1, Len(body)),
                       ePos # 0)

\* inf, infinity and nan in any case, or a number
PyFloatSigned(sign, body, low) ==
    IF low \in {<<"i","n","f">>, <<"i","n","f","i","n","i","t","y">>}
    THEN [ok |-> TRUE, val |-> FloatSpecial(<<"i","n","f">>, sign)]
    ELSE IF low = <<"n","a","n">>
    THEN [ok |-> TRUE, val |-> FloatSpecial(<<"n","a","n">>, sign)]
    ELSE PyFloatNumber(sign, body, IndexOf(body, {"e", "E"}, 1))

\* float(raw_value): ok is FALSE where Python raises ValueError
PyFloat(raw) ==
    Bind(StripSpace(raw), LAMBDA t :
        PyFloatSigned(SignOf(t), Unsigned(t), Lower(Unsigned(t))))

(***************************************************************************)
(* QueryTranslator._clean_value                                            *)
(***************************************************************************)
\* a quoted branch that hands the stripped text on to the number parse
CleanQuotedReinterpreted(raw) ==
    Bind(PyInt(Strip(raw, DQ)), LAMBDA n :
        IF n.ok THEN n.val ELSE StringV(Strip(raw, DQ)))

\* the quoted branch: raw_value.strip('"')
CleanQuoted(raw) == StringV(Strip(raw, DQ))

\* the fallback: raw_value.replace("\\n", "\n").replace("\\t", "\t")
CleanFallback(raw) == StringV(Replace2(Replace2(raw, BS, "n", NL), BS, "t", TAB))

_clean_value(raw) ==
    IF StartsWith(raw, DQ) /\ EndsWith(raw, DQ) THEN CleanQuoted(raw)
    ELSE Bind(Lower(raw), LAMBDA lower_val :
        IF lower_val = <<"t","r","u","e">> THEN BooleanV(TRUE)
        ELSE IF lower_val = <<"f","a","l","s","e">> THEN BooleanV(FALSE)
        ELSE IF lower_val = <<"n","u","l","l">> THEN NullV
        ELSE Bind(PyInt(raw), LAMBDA as_int :
            IF as_int.ok THEN as_int.val
            ELSE Bind(PyFloat(raw), LAMBDA as_float :
                IF as_float.ok THEN as_float.val ELSE CleanFallback(raw))))

(***************************************************************************)
(* QUERY_GRAMMAR terminals.  Each Match operator gives the position after  *)
(* the match of its terminal starting at s[i], or 0 when the terminal does *)
(* not match there (every terminal matches at least one character).        *)
(***************************************************************************)
At(s, i) == IF i >= 1 /\ i <= Len(s) THEN s[i] ELSE ""

\* /\w+/ is greedy: the whole run of word characters
RECURSIVE WordEnd(_, _)
WordEnd(s, i) == IF IsWordChar(At(s, i)) THEN WordEnd(s, i + 1) ELSE i

RECURSIVE DigitsEnd(_, _)
DigitsEnd(s, i) == IF At(s, i) \in Digits THEN DigitsEnd(s, i + 1) ELSE i

\* FIELD: /\w+/
MatchFIELD(s, i) == IF IsWordChar(At(s, i)) THEN WordEnd(s, i) ELSE 0

\* UNQUOTED_VALUE: /\w+/
MatchUNQUOTED_VALUE(s, i) == IF IsWordChar(At(s, i)) THEN WordEnd(s, i) ELSE 0

\* AND: "AND" | "and"
MatchAND(s, i) ==
    IF i + 2 <= Len(s) /\ SubSeq(s, i, i + 2) \in {<<"A","N","D">>, <<"a","n","d">>}
    THEN i + 3 ELSE 0

\* OR: "OR" | "or"
MatchOR(s, i) ==
    IF i + 1 <= Len(s) /\ SubSeq(s, i, i + 1) \in {<<"O","R">>, <<"o","r">>}
    THEN i + 2 ELSE 0

TwoCharOperators == {<<">","=">>, <<"<","=">>, <<":","=">>, <<"~","=">>, <<"!","=">>}
OneCharOperators == {<<">">>, <<"<">>, <<":">>}

\* an OPERATOR whose one-character alternatives are tried first
MatchOPERATORShortestFirst(s, i) ==
    IF i <= Len(s) /\ <<s[i]>> \in OneCharOperators THEN i + 1
    ELSE IF i + 1 <= Len(s) /\ SubSeq(s, i, i + 1) \in TwoCharOperators THEN i + 2
    ELSE 0

\* OPERATOR: ">=" | "<=" | ">" | "<" | ":=" | ":" | "~=" | "!=", the
\* two-character alternatives tried before their one-character prefixes
MatchOPERATOR(s, i) ==
    IF i + 1 <= Len(s) /\ SubSeq(s, i, i + 1) \in TwoCharOperators THEN i + 2
    ELSE IF i <= Len(s) /\ <<s[i]>> \in OneCharOperators THEN i + 1
    ELSE 0

\* the number of consecutive backslashes that end just before position j
RECURSIVE BackslashesBefore(_, _)
BackslashesBefore(s, j) ==
    IF At(s, j - 1) = BS THEN 1 + BackslashesBefore(s, j - 1) ELSE 0

\* the closing quote of common.ESCAPED_STRING: the first double quote after
\* the opening one that an even number of backslashes precedes, with no
\* newline before it ("." matches none)
RECURSIVE ClosingQuote(_, _, _)
ClosingQuote(s, open, j) ==
    IF j > Len(s) \/ s[j] = NL THEN 0
    ELSE IF s[j] = DQ /\ BackslashesBefore(SubSeq(s, open + 1, j - 1), j - open) % 2 = 0
    THEN j
    ELSE ClosingQuote(s, open, j + 1)

\* common.ESCAPED_STRING: "\"" _STRING_ESC_INNER "\""
MatchESCAPED_STRING(s, i) ==
    IF At(s, i) = DQ
    THEN Bind(ClosingQuote(s, i, i + 1), LAMBDA c : IF c = 0 THEN 0 ELSE c + 1)
    ELSE 0

\* _EXP: ("e"|"E") SIGNED_INT, optional: the position after it, or i
ExpEnd(s, i) ==
    IF At(s, i) \in {"e", "E"}
    THEN LET j == IF At(s, i + 1) \in {"+", "-"} THEN i + 2 ELSE i + 1
         IN IF At(s, j) \in Digits THEN DigitsEnd(s, j) ELSE i
    ELSE i

\* common.NUMBER: FLOAT | INT, with FLOAT: INT _EXP | DECIMAL _EXP? and
\* DECIMAL: INT "." INT? | "." INT
MatchNUMBER(s, i) ==
    IF At(s, i) \in Digits
    THEN Bind(DigitsEnd(s, i), LAMBDA d :
             ExpEnd(s, IF At(s, d) = "." THEN DigitsEnd(s, d + 1) ELSE d))
    ELSE IF At(s, i) = "." /\ At(s, i + 1) \in Digits
    THEN ExpEnd(s, DigitsEnd(s, i + 1))
    ELSE 0

\* common.SIGNED_NUMBER: ["+"|"-"] NUMBER
MatchSIGNED_NUMBER(s, i) ==
    MatchNUMBER(s, IF At(s, i) \in {"+", "-"} THEN i + 1 ELSE i)

\* VALUE: ESCAPED_STRING | SIGNED_NUMBER | UNQUOTED_VALUE | "true" | "false"
\* | "null": one regular expression, the alternatives tried in this order
MatchVALUE(s, i) ==
    Bind(MatchESCAPED_STRING(s, i), LAMBDA q :
        IF q # 0 THEN q
        ELSE Bind(MatchSIGNED_NUMBER(s, i), LAMBDA n :
            IF n # 0 THEN n ELSE MatchUNQUOTED_VALUE(s, i)))

MatchLPAR(s, i) == IF At(s, i) = "(" THEN i + 1 ELSE 0
MatchRPAR(s, i) == IF At(s, i) = ")" THEN i + 1 ELSE 0

\* %ignore WS
RECURSIVE SkipWS(_, _)
SkipWS(s, i) == IF IsWS(At(s, i)) THEN SkipWS(s, i + 1) ELSE i

MatchTerminal(name, s, i) ==
    CASE name = "AND" -> MatchAND(s, i)
      [] name = "OR" -> MatchOR(s, i)
      [] name = "OPERATOR" -> MatchOPERATOR(s, i)
      [] name = "FIELD" -> MatchFIELD(s, i)
      [] name = "VALUE" -> MatchVALUE(s, i)
      [] name = "LPAR" -> MatchLPAR(s, i)
      [] name = "RPAR" -> MatchRPAR(s, i)

Terminals == {"AND", "OR", "OPERATOR", "FIELD", "VALUE", "LPAR", "RPAR"}

Token(type, text) == [data |-> type, text |-> text, children |-> <<>>]

(***************************************************************************)
(* The contextual lexer of Lark(QUERY_GRAMMAR, parser='lalr'): in a parser *)
(* state only the terminals that state accepts are tried.  The accept sets *)
(* of this grammar never hold two terminals that match at one position.    *)
(* The result is the next token and the position after it, $END at the end *)
(* of the text, or the error Lark raises: UnexpectedToken when a terminal  *)
(* outside the accept set matches there, UnexpectedCharacters when none.   *)
(***************************************************************************)
\* the token at p, ends[t] being the position after the match of the
\* terminal t there (0: no match)
TokenAt(s, p, accepts, ends) ==
    LET hits == {t \in accepts : ends[t] # 0}
    IN IF p > Len(s)
       THEN [ok |-> TRUE, tok |-> Token("$END", <<>>), pos |-> p, err |-> ""]
       ELSE IF hits # {}
       THEN LET u == CHOOSE t \in hits : TRUE
            IN [ok |-> TRUE, tok |-> Token(u, SubSeq(s, p, ends[u] - 1)),
                pos |-> ends[u], err |-> ""]
       ELSE [ok |-> FALSE, tok |-> Token("", <<>>), pos |-> p,
             err |-> IF \E t \in Terminals : ends[t] # 0
                     THEN "UnexpectedToken" ELSE "UnexpectedCharacters"]

NextToken(s, i, accepts) ==
    Bind(SkipWS(s, i), LAMBDA p :
        TokenAt(s, p, accepts, [t \in Terminals |-> MatchTerminal(t, s, p)]))

(***************************************************************************)
(* The rules of QUERY_GRAMMAR.  A "?" rule with one child is inlined, the  *)
(* anonymous "(" and ")" are filtered out of the tree, the named AND and   *)
(* OR tokens are kept as children.  pos is the position after the last     *)
(* token taken.                                                            *)
(***************************************************************************)
Tree(data, children) == [data |-> data, text |-> <<>>, children |-> children]

ParseOk(node, pos) == [ok |-> TRUE, node |-> node, pos |-> pos, err |-> ""]
ParseFail(err, pos) == [ok |-> FALSE, node |-> Token("", <<>>), pos |-> pos, err |-> err]

\* the token the rule needs next: an error of the lexer, or UnexpectedToken
\* at the end of the text
Expect(s, i, accepts) ==
    Bind(NextToken(s, i, accepts), LAMBDA t :
        IF t.ok /\ t.tok.data = "$END"
        THEN [t EXCEPT !.ok = FALSE, !.err = "UnexpectedToken"]
        ELSE t)

\* lookup_statement: FIELD OPERATOR VALUE, the FIELD already taken
ParseLookupStatement(s, f) ==
    Bind(Expect(s, f.pos, {"OPERATOR"}), LAMBDA o :
        IF ~o.ok THEN ParseFail(o.err, o.pos)
        ELSE Bind(Expect(s, o.pos, {"VALUE"}), LAMBDA v :
            IF ~v.ok THEN ParseFail(v.err, v.pos)
            ELSE ParseOk(Tree("lookup_statement", <<f.tok, o.tok, v.tok>>), v.pos)))

\* an and_expr level that takes either keyword: no precedence between them
JoinsAndExprFlat(tok) == tok.data \in {"AND", "OR"}

\* the terminal that joins the operands of and_expr
JoinsAndExpr(tok) == tok.data = "AND"

\* the terminal that joins the operands of or_expr
JoinsOrExpr(tok) == tok.data = "OR"

RECURSIVE ParseOrExpr(_, _)
RECURSIVE ParseOrRest(_, _, _)
RECURSIVE ParseAndExpr(_, _)
RECURSIVE ParseAndRest(_, _, _)
RECURSIVE ParseComparison(_, _)

\* ?comparison: term | "(" or_expr ")"   with   ?term: lookup_statement
ParseComparison(s, i) ==
    Bind(Expect(s, i, {"FIELD", "LPAR"}), LAMBDA t :
        IF ~t.ok THEN ParseFail(t.err, t.pos)
        ELSE IF t.tok.data = "FIELD" THEN ParseLookupStatement(s, t)
        ELSE Bind(ParseOrExpr(s, t.pos), LAMBDA r :
            IF ~r.ok THEN r
            ELSE Bind(NextToken(s, r.pos, {"AND", "OR", "RPAR"}), LAMBDA c :
                IF ~c.ok THEN ParseFail(c.err, c.pos)
                ELSE IF c.tok.data = "RPAR" THEN ParseOk(r.node, c.pos)
                ELSE ParseFail("UnexpectedToken", c.pos))))

\* ?and_expr: comparison (AND comparison)*
ParseAndRest(s, i, kids) ==
    Bind(NextToken(s, i, {"AND", "OR", "RPAR"}), LAMBDA t :
        IF ~t.ok THEN ParseFail(t.err, t.pos)
        ELSE IF JoinsAndExpr(t.tok)
        THEN Bind(ParseComparison(s, t.pos), LAMBDA c :
                 IF ~c.ok THEN c ELSE ParseAndRest(s, c.pos, kids \o <<t.tok, c.node>>))
        ELSE ParseOk(IF Len(kids) = 1 THEN kids[1] ELSE Tree("and_expr", kids), i))

ParseAndExpr(s, i) ==
    Bind(ParseComparison(s, i), LAMBDA c :
        IF ~c.ok THEN c ELSE ParseAndRest(s, c.pos, <<c.node>>))

\* ?or_expr: and_expr (OR and_expr)*
ParseOrRest(s, i, kids) ==
    Bind(NextToken(s, i, {"AND", "OR", "RPAR"}), LAMBDA t :
        IF ~t.ok THEN ParseFail(t.err, t.pos)
        ELSE IF JoinsOrExpr(t.tok)
        THEN Bind(ParseAndExpr(s, t.pos), LAMBDA c :
                 IF ~c.ok THEN c ELSE ParseOrRest(s, c.pos, kids \o <<t.tok, c.node>>))
        ELSE ParseOk(IF Len(kids) = 1 THEN kids[1] ELSE Tree("or_expr", kids), i))

ParseOrExpr(s, i) ==
    Bind(ParseAndExpr(s, i), LAMBDA c :
        IF ~c.ok THEN c ELSE ParseOrRest(s, c.pos, <<c.node>>))

\* ?start: or_expr, then the end of the text.  self.parser.parse(query_string)
LarkParse(s) ==
    Bind(ParseOrExpr(s, 1), LAMBDA r :
        IF ~r.ok THEN r
        ELSE Bind(NextToken(s, r.pos, {"AND", "OR", "RPAR"}), LAMBDA t :
            IF ~t.ok THEN ParseFail(t.err, t.pos)
            ELSE IF t.tok.data = "$END" THEN r
            ELSE ParseFail("UnexpectedToken", t.pos)))

(***************************************************************************)
(* django.db.models.Q as the translator builds and combines it: a node has *)
(* a connector, a negated flag and children, each child a (key, value)     *)
(* pair or a node.                                                         *)
(***************************************************************************)
QNode(conn, neg, kids) == [connector |-> conn, negated |-> neg, children |-> kids]
Leaf(key, value) == [key |-> key, value |-> value]
IsLeaf(x) == "key" \in DOMAIN x

\* Q()
QEmpty == QNode("AND", FALSE, <<>>)

\* Q(**{lookup: value})
QKw(key, value) == QNode("AND", FALSE, <<Leaf(key, value)>>)

\* Node.add(data, conn) on a node whose connector is conn: a child that is
\* not negated and has the same connector or a single child is squashed in
QAdd(obj, data) ==
    IF ~data.negated /\ (data.connector = obj.connector \/ Len(data.children) = 1)
    THEN [obj EXCEPT !.children = @ \o data.children]
    ELSE [obj EXCEPT !.children = Append(@, data)]

\* Q._combine
QCombine(a, b, conn) ==
    IF a.children = <<>> THEN b
    ELSE IF b.children = <<>> THEN a
    ELSE QAdd(QAdd(QNode(conn, FALSE, <<>>), a), b)

\* result | q_obj
QOr(a, b) == QCombine(a, b, "OR")

\* result & q_obj
QAnd(a, b) == QCombine(a, b, "AND")

\* ~Q(...)
QNot(a) == [a EXCEPT !.negated = ~@]

(***************************************************************************)
(* QueryTranslator                                                         *)
(***************************************************************************)
\* allowed_fields as the caller passes it: None, or a collection of names
None == [present |-> FALSE, fields |-> {}]
FieldSet(fs) == [present |-> TRUE, fields |-> fs]

\* the truth value Python gives allowed_fields: None and an empty
\* collection are both false
Truthy(af) == af.present /\ af.fields # {}

Str_exact == <<"e","x","a","c","t">>
Str_icontains == <<"i","c","o","n","t","a","i","n","s">>
Str_exclude__exact == <<"e","x","c","l","u","d","e","_","_","e","x","a","c","t">>
Str_gt == <<"g","t">>
Str_lt == <<"l","t">>
Str_gte == <<"g","t","e">>
Str_lte == <<"l","t","e">>

OPERATOR_MAP ==
    (<<":">> :> Str_exact) @@ (<<":","=">> :> Str_exact)
    @@ (<<"~","=">> :> Str_icontains) @@ (<<"!","=">> :> Str_exclude__exact)
    @@ (<<">">> :> Str_gt) @@ (<<"<">> :> Str_lt)
    @@ (<<">","=">> :> Str_gte) @@ (<<"<","=">> :> Str_lte)

\* OPERATOR_MAP.get(operator): the empty text stands for None
OperatorMapGet(operator) ==
    IF operator \in DOMAIN OPERATOR_MAP THEN OPERATOR_MAP[operator] ELSE <<>>

\* f"{field}__{lookup_type}"
LookupKey(field, lookup_type) == field \o <<"_", "_">> \o lookup_type

\* QueryTranslator.__init__: set(allowed_fields) if allowed_fields else None
QueryTranslatorInit(allowed_fields) ==
    IF Truthy(allowed_fields) THEN FieldSet(allowed_fields.fields) ELSE None

\* the guard of lookup_statement:
\* self.allowed_fields and field not in self.allowed_fields
FieldRejected(self_allowed_fields, field) ==
    Truthy(self_allowed_fields) /\ field \notin self_allowed_fields.fields

ValueError(text, subject) == [kind |-> "ValueError", text |-> text, subject |-> subject]

\* what a Transformer callback gives: a Q, or the exception it raises
Built(q, n) == [ok |-> TRUE, q |-> q, err |-> ValueError("", <<>>), lookups |-> n]
Raised(e, n) == [ok |-> FALSE, q |-> QEmpty, err |-> e, lookups |-> n]

\* QueryTranslator.lookup_statement
lookup_statement(self_allowed_fields, field_token, operator_token, value_token) ==
    LET field == field_token.text
        operator == operator_token.text
        lookup_type == OperatorMapGet(operator_token.text)
    IN Bind(_clean_value(value_token.text), LAMBDA value :
           IF FieldRejected(self_allowed_fields, field)
           THEN Raised(ValueError("Querying on field is not allowed.", field), 1)
           ELSE IF operator = <<"!", "=">>
           THEN Built(QNot(QKw(LookupKey(field, OperatorMapGet(<<":">>)), value)), 1)
           ELSE IF lookup_type = <<>>
           THEN Raised(ValueError("Unsupported operator in query.", operator), 1)
           ELSE Built(QKw(LookupKey(field, lookup_type), value), 1))

IsQ(arg) == "connector" \in DOMAIN arg

\* q_objects = [arg for arg in args if isinstance(arg, Q)]
QObjects(args) == SelectSeq(args, IsQ)

RECURSIVE FoldOr(_, _)
FoldOr(result, rest) ==
    IF rest = <<>> THEN result ELSE FoldOr(QOr(result, Head(rest)), Tail(rest))

RECURSIVE FoldAnd(_, _)
FoldAnd(result, rest) ==
    IF rest = <<>> THEN result ELSE FoldAnd(QAnd(result, Head(rest)), Tail(rest))

\* QueryTranslator.or_expr
or_expr(args) ==
    LET q_objects == QObjects(args)
    IN IF q_objects = <<>> THEN QEmpty
       ELSE IF Len(q_objects) = 1 THEN q_objects[1]
       ELSE FoldOr(q_objects[1], Tail(q_objects))

\* an and_expr that combines with | as or_expr does
and_expr_with_or(args) ==
    LET q_objects == QObjects(args)
    IN IF q_objects = <<>> THEN QEmpty
       ELSE IF Len(q_objects) = 1 THEN q_objects[1]
       ELSE FoldOr(q_objects[1], Tail(q_objects))

\* QueryTranslator.and_expr
and_expr(args) ==
    LET q_objects == QObjects(args)
    IN IF q_objects = <<>> THEN QEmpty
       ELSE IF Len(q_objects) = 1 THEN q_objects[1]
       ELSE FoldAnd(q_objects[1], Tail(q_objects))

\* Transformer.transform: the children first, left to right, then the
\* callback named by the rule; a token without a Q stays as it is; the
\* first exception a callback raises ends the walk, wrapped in VisitError
VisitError(rule, orig) == [kind |-> "VisitError", rule |-> rule, orig_exc |-> orig]

RECURSIVE Transform(_, _)
RECURSIVE TransformChildren(_, _, _, _)

TransformChildren(kids, self_allowed_fields, args, n) ==
    IF kids = <<>> THEN [ok |-> TRUE, args |-> args, err |-> ValueError("", <<>>), lookups |-> n]
    ELSE IF Head(kids).children = <<>>
    THEN TransformChildren(Tail(kids), self_allowed_fields, Append(args, Head(kids)), n)
    ELSE Bind(Transform(Head(kids), self_allowed_fields), LAMBDA r :
             IF ~r.ok
             THEN [ok |-> FALSE, args |-> args, err |-> r.err, lookups |-> n + r.lookups]
             ELSE TransformChildren(Tail(kids), self_allowed_fields,
                                    Append(args, r.q), n + r.lookups))

Transform(tree, self_allowed_fields) ==
    IF tree.data = "lookup_statement"
    THEN Bind(lookup_statement(self_allowed_fields, tree.children[1],
                               tree.children[2], tree.children[3]), LAMBDA r :
             IF r.ok THEN r ELSE Raised(VisitError("lookup_statement", r.err), r.lookups))
    ELSE Bind(TransformChildren(tree.children, self_allowed_fields, <<>>, 0), LAMBDA c :
             IF ~c.ok THEN Raised(c.err, c.lookups)
             ELSE IF tree.data = "or_expr" THEN Built(or_expr(c.args), c.lookups)
             ELSE Built(and_expr(c.args), c.lookups))

(***************************************************************************)
(* DjangoQueryParser.parse                                                 *)
(***************************************************************************)
LarkError(kind, pos) == [kind |-> kind, pos |-> pos]

\* an except clause that names the parser's input errors only
IsUnexpectedInput(e) == e.kind \in {"UnexpectedCharacters", "UnexpectedToken"}

\* the classes "except Exception" catches: every exception the parser, the
\* lexer and the transformer raise derives from Exception
IsException(e) == e.kind \in {"UnexpectedCharacters", "UnexpectedToken", "VisitError", "ValueError"}

\* raise ValueError(f"Invalid query string: {e}") from e
InvalidQueryError(e) == [kind |-> "ValueError", text |-> "Invalid query string: ", cause |-> e]

Returned(q, invoked, n) ==
    [status |-> "return", q |-> q, error |-> ValueError("", <<>>),
     invoked |-> invoked, lookups |-> n]
Thrown(e, invoked, n) ==
    [status |-> "raise", q |-> QEmpty, error |-> e, invoked |-> invoked, lookups |-> n]

\* the except clause around the two steps of parse
Except(e, invoked, n) ==
    IF IsException(e) THEN Thrown(InvalidQueryError(e), invoked, n)
    ELSE Thrown(e, invoked, n)

\* a parse without the guard for the empty string
NeverEmptyQuery(query_string) == FALSE

\* "if not query_string"
IsEmptyQuery(query_string) == query_string = <<>>

\* parse(self, query_string) on a parser whose self.allowed_fields is given.
\* invoked names the collaborators the call reached, lookups counts the
\* lookup_statement callbacks (each makes one whitelist check)
Parse(self_allowed_fields, query_string) ==
    IF IsEmptyQuery(query_string) THEN Returned(QEmpty, {}, 0)
    ELSE Bind(LarkParse(query_string), LAMBDA tree :
        IF ~tree.ok
        THEN Except(LarkError(tree.err, tree.pos), {"Lark.parse"}, 0)
        ELSE Bind(Transform(tree.node, QueryTranslatorInit(self_allowed_fields)),
                  LAMBDA q_object :
            IF ~q_object.ok
            THEN Except(q_object.err, {"Lark.parse", "QueryTranslator.transform"},
                        q_object.lookups)
            ELSE Returned(q_object.q, {"Lark.parse", "QueryTranslator.transform"},
                          q_object.lookups)))

(***************************************************************************)
(* Inputs: the query strings and raw values the checks draw from.          *)
(***************************************************************************)
\* the most operands an enumerated AND/OR expression has
MaxOperands == 3

\* the most pieces an enumerated raw value is put together from
MaxChunks == 3

Fa == <<"a">>
Fb == <<"b">>
Fx == <<"x">>
Fields == {Fa, Fb, Fx}

Operators == TwoCharOperators \cup OneCharOperators

\* raw value texts: 1, -5, 99.99, true, null, abc, "j d", ""
ValueTexts ==
    {
    <<"1">>, <<"-","5">>, <<"9","9",".","9","9">>,
    <<"t","r","u","e">>, <<"n","u","l","l">>, <<"a","b","c">>,
    <<DQ,"j"," ","d",DQ>>, <<DQ,DQ>> }

KwAND == <<"A","N","D">>
KwOR == <<"O","R">>
Connectors == {KwAND, KwOR}
Sp == <<" ">>

LookupText(f, op, v) == f \o op \o v
Joined(l, c, r) == l \o Sp \o c \o Sp \o r
Paren(e) == <<"(">> \o e \o <<")">>

\* every field with every operator and every value text
SingleLookups == {LookupText(f, op, v) : f \in Fields, op \in Operators, v \in ValueTexts}

\* the lookups the compound expressions are put together from:
\* a:1, b>=2, x!=abc
SmallLookups ==
    { [field |-> Fa, op |-> <<":">>, raw |-> <<"1">>],
      [field |-> Fb, op |-> <<">","=">>, raw |-> <<"2">>],
      [field |-> Fx, op |-> <<"!","=">>, raw |-> <<"a","b","c">>] }

TextOf(l) == LookupText(l.field, l.op, l.raw)

\* the expressions of n operands, each operand a lookup or a parenthesised
\* expression
RECURSIVE Exprs(_)
RECURSIVE Grouped(_)
Exprs(n) ==
    IF n = 1 THEN {TextOf(l) : l \in SmallLookups}
    ELSE UNION {LET ls == Grouped(k)
                    rs == Grouped(n - k)
                IN {Joined(l, c, r) : l \in ls, c \in Connectors, r \in rs} :
                k \in 1..(n - 1)}
Grouped(n) ==
    LET es == Exprs(n) IN IF n = 1 THEN es ELSE es \cup {Paren(e) : e \in es}

\* ((L1 c1 L2) c2 L3) c3 L4
Nested4(l1, c1, l2, c2, l3, c3, l4) ==
    Joined(Paren(Joined(Paren(Joined(TextOf(l1), c1, TextOf(l2))), c2, TextOf(l3))),
           c3, TextOf(l4))

NestedQueries ==
    {Nested4(l1, c1, l2, c2, l3, c3, l4) :
        l1 \in SmallLookups, l2 \in SmallLookups, l3 \in SmallLookups,
        l4 \in SmallLookups, c1 \in Connectors, c2 \in Connectors, c3 \in Connectors}

\* strings the grammar rejects:
\* 'a:1 AND', 'a:1 OR', '(a:1', 'a:1)', 'a&1', 'a b'
\* 'a', 'a:', ':1', 'AND a:1', '()', ' '
\* 'a:1 b:2', 'a:1 AND OR b:2', 'a:"j', 'a:1 & b:2', 'x:1 AND', '(x:1'
\* 'a:1 AND (x:1', 'a=1', 'a:-', 'a!1', 'a:1_0', 'a:5z'
Malformed ==
    {
    <<"a",":","1"," ","A","N","D">>, <<"a",":","1"," ","O","R">>,
    <<"(","a",":","1">>, <<"a",":","1",")">>,
    <<"a","&","1">>, <<"a"," ","b">>,
    <<"a">>, <<"a",":">>,
    <<":","1">>, <<"A","N","D"," ","a",":","1">>,
    <<"(",")">>, <<" ">>,
    <<"a",":","1"," ","b",":","2">>, <<"a",":","1"," ","A","N","D"," ","O","R"," ","b",":","2">>,
    <<"a",":",DQ,"j">>, <<"a",":","1"," ","&"," ","b",":","2">>,
    <<"x",":","1"," ","A","N","D">>, <<"(","x",":","1">>,
    <<"a",":","1"," ","A","N","D"," ","(","x",":","1">>, <<"a","=","1">>,
    <<"a",":","-">>, <<"a","!","1">>,
    <<"a",":","1","_","0">>, <<"a",":","5","z">> }

\* the letter-case spellings of the two keywords
AndSpellings == {<<x, y, z>> : x \in {"A", "a"}, y \in {"N", "n"}, z \in {"D", "d"}}
OrSpellings == {<<x, y>> : x \in {"O", "o"}, y \in {"R", "r"}}

\* two lookups with a keyword in any spelling between them
KeywordQueries ==
    {Joined(TextOf(l1), k, TextOf(l2)) :
        l1 \in SmallLookups, l2 \in SmallLookups, k \in AndSpellings \cup OrSpellings}

\* two lookups with the letters of a keyword run into the second lookup's
\* field: 'a:1 ANDb>=2'
GluedQueries ==
    {TextOf(l1) \o Sp \o k \o TextOf(l2) :
        l1 \in SmallLookups, l2 \in SmallLookups, k \in Connectors}

Queries ==
    {<<>>} \cup SingleLookups \cup UNION {Exprs(n) : n \in 1..MaxOperands}
    \cup NestedQueries \cup Malformed \cup KeywordQueries \cup GluedQueries

\* allowed_fields as DjangoQueryParser is constructed with it
Configs == {None, FieldSet({}), FieldSet({Fa}), FieldSet({Fa, Fb})}

\* pieces of unquoted raw values: true, TRUE, False, null, 0, 5, -, ., _,
\* e, inf, abc
UnquotedChunks ==
    {
    <<"t","r","u","e">>, <<"T","R","U","E">>, <<"F","a","l","s","e">>, <<"n","u","l","l">>, <<"0">>, <<"5">>,
    <<"-">>, <<".">>, <<"_">>, <<"e">>, <<"i","n","f">>, <<"a","b","c">> }

\* pieces of the text between the quotes of a quoted raw value: a quote,
\* the escapes \n, \t and \", abc, 5, true, a space
QuotedChunks ==
    {
    <<DQ>>, <<BS,"n">>, <<BS,"t">>, <<BS,DQ>>,
    <<"a","b","c">>, <<"5">>, <<"t","r","u","e">>, <<" ">> }

RECURSIVE ChunkTexts(_, _)
ChunkTexts(chunks, n) ==
    IF n = 0 THEN {<<>>}
    ELSE LET shorter == ChunkTexts(chunks, n - 1)
         IN shorter \cup {t \o c : t \in shorter, c \in chunks}

\* a raw value is the text of one VALUE token: _clean_value is called by
\* lookup_statement alone, with str(value_token)
IsValueToken(raw) == raw # <<>> /\ MatchVALUE(raw, 1) = Len(raw) + 1

RawValues ==
    {r \in ChunkTexts(UnquotedChunks, MaxChunks)
            \cup {<<DQ>> \o t \o <<DQ>> : t \in ChunkTexts(QuotedChunks, MaxChunks)} :
        IsValueToken(r)}

(***************************************************************************)
(* State.  One DjangoQueryParser, constructed with allowed_fields, and its *)
(* caller: query_string is the argument of the call made last and outcome  *)
(* what that call gave.  raw_value and cleaned are the argument and the    *)
(* result of a direct call of the translator's _clean_value.               *)
(***************************************************************************)
VARIABLES allowed_fields, query_string, outcome, raw_value, cleaned

\* Several parsers and several callers, each call taken a line at a time:
\* parsers gives each DjangoQueryParser its self.allowed_fields, threads
\* each caller's place in parse and its local variables, history what the
\* calls that ended were given and gave, calls the number of calls made and
\* allocated the number of results (objects) created.
VARIABLES parsers, threads, history, calls, allocated

single == <<allowed_fields, query_string, outcome>>
direct == <<raw_value, cleaned>>
shared == <<parsers, threads, history, calls, allocated>>
vars == <<allowed_fields, query_string, outcome, raw_value, cleaned,
          parsers, threads, history, calls, allocated>>

NotCalled ==
    [status |-> "none", q |-> QEmpty, error |-> ValueError("", <<>>),
     invoked |-> {}, lookups |-> 0]
NotCleaned == [type |-> "none", text |-> <<>>, num |-> 0, exp |-> 0]

ParserIds == {1, 2}
ThreadIds == {1, 2}

Idle ==
    [pc |-> "idle", parser |-> 0, query |-> <<>>, tree |-> Token("", <<>>),
     translator |-> None, result |-> NotCalled, id |-> 0]

NoCallers ==
    /\ threads = [t \in ThreadIds |-> Idle]
    /\ history = {}
    /\ calls = 0
    /\ allocated = 0

\* DjangoQueryParser.__init__: self.allowed_fields = allowed_fields
Init ==
    /\ allowed_fields \in Configs
    /\ query_string = <<>>
    /\ outcome = NotCalled
    /\ raw_value = <<>>
    /\ cleaned = NotCleaned
    /\ parsers = [p \in ParserIds |-> allowed_fields]
    /\ NoCallers

\* a call parser.parse(q), from its first line to its return or raise
ParseCall(q) ==
    /\ outcome.status = "none"
    /\ query_string' = q
    /\ outcome' = Parse(allowed_fields, q)
    /\ UNCHANGED <<allowed_fields, direct, shared>>

\* the caller is done with what the call gave and may call again
Release ==
    /\ outcome.status # "none"
    /\ query_string' = <<>>
    /\ outcome' = NotCalled
    /\ UNCHANGED <<allowed_fields, direct, shared>>

Next ==
    \/ outcome.status = "none" /\ \E q \in Queries : ParseCall(q)
    \/ Release

Spec == Init /\ [][Next]_vars

\* a translator of a parser without a whitelist, as parse constructs it
InitValue ==
    /\ allowed_fields = None
    /\ query_string = <<>>
    /\ outcome = NotCalled
    /\ raw_value = <<>>
    /\ cleaned = NotCleaned
    /\ parsers = [p \in ParserIds |-> None]
    /\ NoCallers

\* translator._clean_value(raw), as lookup_statement calls it
CleanValue(raw) ==
    /\ cleaned.type = "none"
    /\ raw_value' = raw
    /\ cleaned' = _clean_value(raw)
    /\ UNCHANGED <<single, shared>>

ReleaseValue ==
    /\ cleaned.type # "none"
    /\ raw_value' = <<>>
    /\ cleaned' = NotCleaned
    /\ UNCHANGED <<single, shared>>

NextValue ==
    \/ cleaned.type = "none" /\ \E raw \in RawValues : CleanValue(raw)
    \/ ReleaseValue

SpecValue == InitValue /\ [][NextValue]_vars

(***************************************************************************)
(* parse a line at a time, for callers that run side by side.              *)
(***************************************************************************)
\* the most calls of parse in one run
MaxCalls == 3

\* the strings the callers pass: "", a:1, b:1 OR a:1, a:
ConcQueries ==
    { <<>>, <<"a",":","1">>,
      <<"b",":","1"," ","O","R"," ","a",":","1">>, <<"a",":">> }

InitConc ==
    /\ allowed_fields = None
    /\ query_string = <<>>
    /\ outcome = NotCalled
    /\ raw_value = <<>>
    /\ cleaned = NotCleaned
    /\ parsers \in {[p \in ParserIds |-> IF p = 1 THEN FieldSet({Fa}) ELSE c] :
                        c \in {None, FieldSet({Fa}), FieldSet({Fa, Fb})}}
    /\ NoCallers

\* self.allowed_fields of the parser the caller t called
SelfAllowedFields(t) == parsers[threads[t].parser]

\* a translator kept in one place for all calls: a call that reaches
\* transform while another call has built its translator uses that one
TranslatorShared(t) ==
    IF \E u \in ThreadIds : u # t /\ threads[u].pc = "L182"
    THEN threads[CHOOSE u \in ThreadIds : u # t /\ threads[u].pc = "L182"].translator
    ELSE threads[t].translator

\* the local variable translator of the call of t
TranslatorOf(t) == threads[t].translator

\* the call of t ends with out: a new object, handed to the caller
Finish(t, out) ==
    /\ threads' = [threads EXCEPT ![t].pc = "done", ![t].result = out,
                                  ![t].id = allocated + 1]
    /\ allocated' = allocated + 1
    /\ history' = history \cup {[allowed |-> SelfAllowedFields(t),
                                 query |-> threads[t].query, outcome |-> out]}
    /\ UNCHANGED <<parsers, calls, single, direct>>

Step(t, pc) ==
    /\ threads' = [threads EXCEPT ![t].pc = pc]
    /\ UNCHANGED <<parsers, history, calls, allocated, single, direct>>

\* parser p.parse(q) is called by t
CallParse(t, p, q) ==
    /\ threads[t].pc \in {"idle", "done"}
    /\ calls < MaxCalls
    /\ calls' = calls + 1
    /\ threads' = [threads EXCEPT ![t] = [Idle EXCEPT !.pc = "L173", !.parser = p, !.query = q]]
    /\ UNCHANGED <<parsers, history, allocated, single, direct>>

\* if not query_string: return Q()
CheckEmpty(t) ==
    /\ threads[t].pc = "L173"
    /\ IF IsEmptyQuery(threads[t].query)
       THEN Finish(t, Returned(QEmpty, {}, 0))
       ELSE Step(t, "L178")

\* tree = self.parser.parse(query_string)
RunLark(t) ==
    /\ threads[t].pc = "L178"
    /\ \E tree \in {LarkParse(threads[t].query)} :
          IF ~tree.ok
          THEN Finish(t, Except(LarkError(tree.err, tree.pos), {"Lark.parse"}, 0))
          ELSE /\ threads' = [threads EXCEPT ![t].pc = "L181", ![t].tree = tree.node]
               /\ UNCHANGED <<parsers, history, calls, allocated, single, direct>>

\* translator = QueryTranslator(allowed_fields=self.allowed_fields)
NewTranslator(t) ==
    /\ threads[t].pc = "L181"
    /\ threads' = [threads EXCEPT ![t].pc = "L182",
                                  ![t].translator = QueryTranslatorInit(SelfAllowedFields(t))]
    /\ UNCHANGED <<parsers, history, calls, allocated, single, direct>>

\* q_object = translator.transform(tree), then the return or the except
RunTransform(t) ==
    /\ threads[t].pc = "L182"
    /\ \E q_object \in {Transform(threads[t].tree, TranslatorOf(t))} :
          IF q_object.ok
          THEN Finish(t, Returned(q_object.q, {"Lark.parse", "QueryTranslator.transform"},
                                  q_object.lookups))
          ELSE Finish(t, Except(q_object.err, {"Lark.parse", "QueryTranslator.transform"},
                                q_object.lookups))

NextConc ==
    \E t \in ThreadIds :
        \/ \E p \in ParserIds, q \in ConcQueries : CallParse(t, p, q)
        \/ CheckEmpty(t)
        \/ RunLark(t)
        \/ NewTranslator(t)
        \/ RunTransform(t)

SpecConc == InitConc /\ [][NextConc]_vars

(***************************************************************************)
(* Properties                                                              *)
(***************************************************************************)
Called == outcome.status # "none"

\* the keys of the (key, value) pairs of a Q, at any depth
RECURSIVE LeafKeys(_)
LeafKeys(q) ==
    IF IsLeaf(q) THEN {q.key}
    ELSE UNION {LeafKeys(q.children[i]) : i \in 1..Len(q.children)}

\* the field of a key "<field>__<lookup type>": the text before its last "__"
LastDunder(key) ==
    CHOOSE i \in 1..(Len(key) - 1) :
        /\ key[i] = "_" /\ key[i + 1] = "_"
        /\ \A j \in (i + 1)..(Len(key) - 1) : ~(key[j] = "_" /\ key[j + 1] = "_")
FieldOfKey(key) == SubSeq(key, 1, LastDunder(key) - 1)

\* the strings of the input set that the grammar accepts
ValidQueries ==
    SingleLookups \cup UNION {Exprs(n) : n \in 1..MaxOperands} \cup NestedQueries

IsFieldNotAllowed(e, field) ==
    /\ e.kind = "ValueError"
    /\ "cause" \in DOMAIN e
    /\ e.cause.kind = "VisitError"
    /\ e.cause.orig_exc = ValueError("Querying on field is not allowed.", field)

\* C1: with a whitelist configured, every predicate of a tree that parse
\* returns is on a field of the whitelist (a query that names any other
\* field, wherever it sits, fails).
C1_ReturnedFieldsAreWhitelisted ==
    (allowed_fields.present /\ outcome.status = "return")
        => \A k \in LeafKeys(outcome.q) : FieldOfKey(k) \in allowed_fields.fields

\* C2: an absent whitelist accepts every field, and a present but empty
\* whitelist rejects every query that holds a lookup, with the
\* field-not-allowed error.
C2_AbsentAcceptsEmptyRejects ==
    (Called /\ query_string \in ValidQueries) =>
        /\ allowed_fields = None => outcome.status = "return"
        /\ allowed_fields = FieldSet({}) =>
              /\ outcome.status = "raise"
              /\ \E f \in Fields : IsFieldNotAllowed(outcome.error, f)

\* the predicate the translator is to build for a lookup of SmallLookups
ExactKey(f) == f \o <<"_","_","e","x","a","c","t">>
PredOf(l) ==
    CASE l.field = Fa -> QNode("AND", FALSE, <<Leaf(ExactKey(Fa), IntegerV(1))>>)
      [] l.field = Fb -> QNode("AND", FALSE, <<Leaf(Fb \o <<"_","_","g","t","e">>, IntegerV(2))>>)
      [] l.field = Fx -> QNode("AND", TRUE, <<Leaf(ExactKey(Fx), StringV(<<"a","b","c">>))>>)

\* a predicate as an operand of And or Or: a plain predicate sits there as
\* its (key, value) pair, a negated one as a node of its own
Operand(p) == IF p.negated THEN p ELSE p.children[1]
AndOf(x, y) == QNode("AND", FALSE, <<x, y>>)
OrOf(x, y) == QNode("OR", FALSE, <<x, y>>)

\* C3: AND binds tighter than OR: 'L1 AND L2 OR L3' gives
\* Or(And(P1, P2), P3) and 'L1 OR L2 AND L3' gives Or(P1, And(P2, P3)).
C3_AndBindsTighter ==
    \A l1 \in SmallLookups, l2 \in SmallLookups, l3 \in SmallLookups :
        /\ (Called /\ query_string = Joined(Joined(TextOf(l1), KwAND, TextOf(l2)), KwOR, TextOf(l3))) =>
              /\ allowed_fields = None => outcome.status = "return"
              /\ outcome.status = "return" =>
                    outcome.q = OrOf(AndOf(Operand(PredOf(l1)), Operand(PredOf(l2))),
                                     Operand(PredOf(l3)))
        /\ (Called /\ query_string = Joined(Joined(TextOf(l1), KwOR, TextOf(l2)), KwAND, TextOf(l3))) =>
              /\ allowed_fields = None => outcome.status = "return"
              /\ outcome.status = "return" =>
                    outcome.q = OrOf(Operand(PredOf(l1)),
                                     AndOf(Operand(PredOf(l2)), Operand(PredOf(l3))))

C3_Witness ==
    /\ query_string = Joined(Joined(TextOf([field |-> Fa, op |-> <<":">>, raw |-> <<"1">>]), KwOR,
                                    TextOf([field |-> Fb, op |-> <<">","=">>, raw |-> <<"2">>])),
                             KwAND, TextOf([field |-> Fx, op |-> <<"!","=">>, raw |-> <<"a","b","c">>]))
    /\ outcome.status = "return"
    /\ outcome.q.connector = "OR"

\* a parenthesised expression e as the left or the right operand of c, the
\* other operand the lookup l
ParenCases ==
    UNION {{[text |-> IF left THEN Joined(Paren(e), c, TextOf(l)) ELSE Joined(TextOf(l), c, Paren(e)),
             e |-> e, l |-> l, left |-> left, conn |-> IF c = KwAND THEN "AND" ELSE "OR"] :
                e \in Exprs(n), l \in SmallLookups, c \in Connectors, left \in BOOLEAN} :
           n \in 2..(MaxOperands - 1)}

\* C4: parentheses override precedence at any depth: '(L1 OR L2) AND L3'
\* gives And(Or(P1, P2), P3), '((L1 OR L2) AND L3) OR L4' gives
\* Or(And(Or(P1, P2), P3), P4), and a parenthesised expression used as the
\* left or right operand of AND or OR enters as the tree it gives alone.
C4_ParenthesesOverride ==
    /\ \A l1 \in SmallLookups, l2 \in SmallLookups, l3 \in SmallLookups :
          (Called /\ query_string = Joined(Paren(Joined(TextOf(l1), KwOR, TextOf(l2))), KwAND, TextOf(l3))) =>
              /\ allowed_fields = None => outcome.status = "return"
              /\ outcome.status = "return" =>
                    outcome.q = AndOf(OrOf(Operand(PredOf(l1)), Operand(PredOf(l2))),
                                      Operand(PredOf(l3)))
    /\ \A l1 \in SmallLookups, l2 \in SmallLookups, l3 \in SmallLookups, l4 \in SmallLookups :
          (Called /\ query_string = Nested4(l1, KwOR, l2, KwAND, l3, KwOR, l4)) =>
              /\ allowed_fields = None => outcome.status = "return"
              /\ outcome.status = "return" =>
                    outcome.q = OrOf(AndOf(OrOf(Operand(PredOf(l1)), Operand(PredOf(l2))),
                                           Operand(PredOf(l3))),
                                     Operand(PredOf(l4)))
    /\ \A r \in ParenCases :
          (Called /\ query_string = r.text /\ outcome.status = "return") =>
              outcome.q = IF r.left
                          THEN QCombine(Parse(allowed_fields, r.e).q, PredOf(r.l), r.conn)
                          ELSE QCombine(PredOf(r.l), Parse(allowed_fields, r.e).q, r.conn)

C4_Witness ==
    /\ \E l1 \in SmallLookups, l2 \in SmallLookups, l3 \in SmallLookups, l4 \in SmallLookups :
          /\ Cardinality({l1, l2, l3, l4}) = 3
          /\ query_string = Nested4(l1, KwOR, l2, KwAND, l3, KwOR, l4)
    /\ outcome.status = "return"
    /\ Len(outcome.q.children) = 2
    /\ outcome.q.children[1].connector = "AND"
    /\ outcome.q.children[1].children[1].connector = "OR"

\* the lookup type the operator table of the specification gives
KindOf(op) ==
    CASE op = <<":">> -> <<"e","x","a","c","t">>
      [] op = <<":","=">> -> <<"e","x","a","c","t">>
      [] op = <<"~","=">> -> <<"i","c","o","n","t","a","i","n","s">>
      [] op = <<">">> -> <<"g","t">>
      [] op = <<"<">> -> <<"l","t">>
      [] op = <<">","=">> -> <<"g","t","e">>
      [] op = <<"<","=">> -> <<"l","t","e">>
      [] op = <<"!","=">> -> <<"e","x","a","c","t">>

\* C5: 'f OP v' builds a predicate on f whose kind OP alone decides, '!='
\* the negation of the exact predicate; a two-character operator is not read
\* as its one-character prefix and no operator of the grammar reaches the
\* unsupported-operator error.
C5_OperatorDecidesKind ==
    \A f \in Fields, op \in Operators, v \in ValueTexts :
        (Called /\ query_string = LookupText(f, op, v)) =>
            /\ ~FieldRejected(QueryTranslatorInit(allowed_fields), f) => outcome.status = "return"
            /\ outcome.status = "return" =>
                  outcome.q = QNode("AND", op = <<"!","=">>,
                                    <<Leaf(f \o <<"_","_">> \o KindOf(op), _clean_value(v))>>)
            /\ outcome.status = "raise" => \E g \in Fields : IsFieldNotAllowed(outcome.error, g)

C5_Witness ==
    /\ query_string = LookupText(Fb, <<">","=">>, <<"-","5">>)
    /\ outcome.status = "return"
    /\ outcome.q.children[1].key = <<"b","_","_","g","t","e">>

\* C6: whatever fails inside parse (the lexer, the parser, the whitelist
\* check) leaves it as the one ValueError "Invalid query string: ..." that
\* holds the original error, and no tree is returned.
C6_OneErrorKind ==
    Called =>
        /\ outcome.status \in {"return", "raise"}
        /\ outcome.status = "raise" =>
              /\ outcome.error.kind = "ValueError"
              /\ "cause" \in DOMAIN outcome.error
              /\ outcome.error.text = "Invalid query string: "
              /\ outcome.error.cause.kind \in {"UnexpectedCharacters", "UnexpectedToken", "VisitError"}
              /\ outcome.q = QEmpty
        /\ query_string \in Malformed =>
              /\ outcome.status = "raise"
              /\ outcome.error.kind = "ValueError"
              /\ "cause" \in DOMAIN outcome.error
              /\ outcome.error.cause.kind \in {"UnexpectedCharacters", "UnexpectedToken"}
        /\ \A f \in Fields, op \in Operators, v \in ValueTexts :
              (query_string = LookupText(f, op, v) /\ Truthy(allowed_fields)
                  /\ f \notin allowed_fields.fields) =>
                  (outcome.status = "raise" /\ IsFieldNotAllowed(outcome.error, f))

C6_Witness ==
    /\ query_string = <<"a","&","1">>
    /\ outcome.status = "raise"
    /\ outcome.error.cause.kind = "UnexpectedCharacters"

C6_WitnessField ==
    /\ allowed_fields = FieldSet({Fa})
    /\ query_string = <<"a",":","1"," ","A","N","D"," ","(","x",":","1">>
    /\ outcome.status = "raise"

\* C7: parse("") returns the empty Q under every whitelist configuration,
\* reaching neither the lexer and parser nor the translator and its
\* whitelist check.
C7_EmptyStringMatchesAll ==
    (Called /\ query_string = <<>>) =>
        /\ outcome.status = "return"
        /\ outcome.q = QEmpty
        /\ outcome.invoked = {}
        /\ outcome.lookups = 0

C7_Witness ==
    /\ Called
    /\ query_string = <<>>
    /\ allowed_fields = FieldSet({})
    /\ outcome.q.children = <<>>

Cleaned == cleaned.type # "none"

IsQuoted(raw) == StartsWith(raw, DQ) /\ EndsWith(raw, DQ)

\* an integer literal: an optional "-", then digits only
IsIntegerLiteral(raw) ==
    LET body == IF StartsWith(raw, "-") THEN Tail(raw) ELSE raw
    IN body # <<>> /\ \A i \in 1..Len(body) : body[i] \in Digits

\* a decimal literal: an optional "-", digits, ".", digits
IsDecimalLiteral(raw) ==
    LET body == IF StartsWith(raw, "-") THEN Tail(raw) ELSE raw
        dot == IndexOf(body, {"."}, 1)
    IN /\ dot > 1 /\ dot < Len(body)
       /\ \A i \in 1..Len(body) : i # dot => body[i] \in Digits

RECURSIVE Pow10(_)
Pow10(n) == IF n = 0 THEN 1 ELSE 10 * Pow10(n - 1)

RECURSIVE LiteralDigits(_)
LiteralDigits(s) ==
    IF s = <<>> THEN 0
    ELSE IF s[Len(s)] \in Digits
    THEN DigitVal(s[Len(s)]) + 10 * LiteralDigits(SubSeq(s, 1, Len(s) - 1))
    ELSE LiteralDigits(SubSeq(s, 1, Len(s) - 1))

LiteralSign(raw) == IF StartsWith(raw, "-") THEN -1 ELSE 1
FractionDigits(raw) == Len(raw) - IndexOf(raw, {"."}, 1)

C8_WitnessFloat ==
    /\ raw_value = <<"5",".","0">>
    /\ cleaned = FloatV(5, 0)

\* the escapes \n and \t resolved
Unescaped(s) == Replace2(Replace2(s, BS, "n", NL), BS, "t", TAB)

\* C10: a quoted value loses exactly its one wrapping pair of quotes and
\* has \n and \t in the rest replaced by a newline and a tab, also when the
\* rest begins or ends with an escaped quote.
C10_QuotedTextUnescaped ==
    (Cleaned /\ IsQuoted(raw_value) /\ Len(raw_value) >= 2) =>
        cleaned = StringV(Unescaped(SubSeq(raw_value, 2, Len(raw_value) - 1)))

\* C9: what a call gives is decided by the query string and the whitelist
\* of the parser called, and by nothing else: calls with the same string on
\* parsers with the same whitelist give equal outcomes, each what the call
\* gives when it runs alone, whatever calls ran before or run beside it, and
\* the results two callers hold are separate objects.
C9_OutcomeDecidedByInputs ==
    /\ \A h1 \in history, h2 \in history :
          (h1.allowed = h2.allowed /\ h1.query = h2.query) => h1.outcome = h2.outcome
    /\ \A h \in history : h.outcome = Parse(h.allowed, h.query)
    /\ \A t \in ThreadIds, u \in ThreadIds :
          (t # u /\ threads[t].pc = "done" /\ threads[u].pc = "done")
              => threads[t].id # threads[u].id

C9_Witness ==
    /\ threads[1].pc = "done" /\ threads[2].pc = "done"
    /\ threads[1].parser = threads[2].parser
    /\ threads[1].query = <<"b",":","1"," ","O","R"," ","a",":","1">>
    /\ threads[2].query = threads[1].query
    /\ threads[1].result.status = "return"
    /\ threads[1].result = threads[2].result
    /\ threads[1].id # threads[2].id
    /\ calls = MaxCalls

\* an unquoted value of word characters only (letters, digits, "_")
IsWordValue(raw) == raw # <<>> /\ \A i \in 1..Len(raw) : IsWordChar(raw[i])

\* C11: an unquoted word-character value that is not true, false or null
\* in any case and is neither an integer nor a decimal literal is returned
\* as the String of its own text (abc, inf, infinity, digits with "_").
C11_UnquotedWordIsString ==
    (/\ Cleaned
     /\ IsWordValue(raw_value)
     /\ Lower(raw_value) \notin {<<"t","r","u","e">>, <<"f","a","l","s","e">>, <<"n","u","l","l">>}
     /\ ~IsIntegerLiteral(raw_value)
     /\ ~IsDecimalLiteral(raw_value))
        => cleaned = StringV(raw_value)

\* C12: the keywords are recognised in any letter case and only as whole
\* words: between two lookups every spelling of AND or OR gives what the
\* upper-case spelling gives, and letters of a keyword that run into the
\* next word are not taken as the keyword.
C12_KeywordsAnyCaseWholeWord ==
    \A l1 \in SmallLookups, l2 \in SmallLookups :
        /\ \A k \in AndSpellings :
              (Called /\ query_string = Joined(TextOf(l1), k, TextOf(l2))) =>
                  outcome = Parse(allowed_fields, Joined(TextOf(l1), KwAND, TextOf(l2)))
        /\ \A k \in OrSpellings :
              (Called /\ query_string = Joined(TextOf(l1), k, TextOf(l2))) =>
                  outcome = Parse(allowed_fields, Joined(TextOf(l1), KwOR, TextOf(l2)))
        /\ \A k \in Connectors :
              (Called /\ query_string = TextOf(l1) \o Sp \o k \o TextOf(l2)) =>
                  outcome.status = "raise"

====
